---- MODULE Spec2Model ----
(***************************************************************************)
(* twintest: branch extraction (parse.go) and the filter chain (main.go).  *)
(*                                                                         *)
(* The input is one parsed Go file: its type declarations and its function *)
(* declarations, each function body a tree of statements.  ParseFile turns *)
(* it into groups (StructInfo) of functions (FuncInfo) with branch forests *)
(* (Branch); main then runs trimByScope, trimByPaths, trimConstructor and  *)
(* trimNoMethod and hands the result to GenerateTestFiles, which writes    *)
(* one file per group.  written is the files written so far, printed the   *)
(* lines the run has put on stdout and stderr.                             *)
(*                                                                         *)
(* The sources hold several revisions of main.go and of the parser; the    *)
(* model follows the latest of each, the ones that fit together: the main  *)
(* with the flags scope, paths and noctor, and the ParseFile that appends  *)
(* the group with the empty name to the list it returns.                   *)
(*                                                                         *)
(* Identifiers are sequences of one-character strings, so that             *)
(* concatenation ("New"+name) and letter case are what they are in Go.     *)
(* Branch.CodeLine (the text excerpt) is not part of the model: no filter  *)
(* reads it.  Branch.Line is the statement's line in a layout that puts    *)
(* every statement header, else and clause on a line of its own.           *)
(***************************************************************************)
EXTENDS Integers, Sequences, FiniteSets

VARIABLES file, scope, paths, noctor, pc, structInfo, handed, written, printed

vars == <<file, scope, paths, noctor, pc, structInfo, handed, written, printed>>

(***************************************************************************)
(* Bounds of the input space.                                              *)
(***************************************************************************)
\* statements, nested ones included, of a function body that is one
\* statement of any kind
MaxNodesAll == 3
\* statements, nested ones included, of a function body that is a list of
\* statements of CoreKinds
MaxNodesCore == 4
\* statements, nested ones included, of a function body that is a list of
\* statements of SkipKinds
MaxNodesSkip == 4
\* type declarations per file
MaxTypes == 2
\* function declarations per file
MaxFuncs == 2

(***************************************************************************)
(* Syntax trees (go/ast).  A statement is                                  *)
(*   [kind, expr, body, els]                                               *)
(* kind: the ast node type; body: the statements of its block (for a       *)
(* switch or select: its clauses); els: the else part of an if (empty, or  *)
(* one If or Block statement); expr: whether the optional header           *)
(* expression is there (SwitchStmt.Tag, CaseClause.List, CommClause.Comm). *)
(***************************************************************************)
Stmt(k, e, b, l) == [kind |-> k, expr |-> e, body |-> b, els |-> l]

LeafKinds == {"Return", "Assign"}
BlockKinds == {"For", "Range", "Block"}
AllKinds == LeafKinds \cup BlockKinds \cup {"If", "Switch", "TypeSwitch", "Select"}
CoreKinds == {"Return", "For", "If"}
SkipKinds == {"Return", "Assign", "For"}

RECURSIVE StmtsOf(_, _)
RECURSIVE ForestsOf(_, _)
RECURSIVE IfsOf(_, _)
RECURSIVE ClausesOf(_, _, _)

\* the statement lists with exactly n statements in all, nested ones included
ForestsOf(n, K) ==
    IF n = 0 THEN {<<>>}
    ELSE UNION {{<<s>> \o f : s \in StmtsOf(k, K), f \in ForestsOf(n - k, K)} : k \in 1..n}

\* the if statements of n statements in all: a body, and nothing, an else
\* block or an else-if after it
IfsOf(n, K) ==
    {Stmt("If", TRUE, b, <<>>) : b \in ForestsOf(n - 1, K)}
    \cup UNION {{Stmt("If", TRUE, b, <<e>>) :
                    b \in ForestsOf(j, K),
                    e \in IfsOf(n - 1 - j, K)
                          \cup {Stmt("Block", TRUE, eb, <<>>) : eb \in ForestsOf(n - 2 - j, K)}}
                : j \in 0..(n - 2)}

\* the clause lists (kind c) of n statements in all
ClausesOf(n, c, K) ==
    IF n = 0 THEN {<<>>}
    ELSE UNION {{<<Stmt(c, e, b, <<>>)>> \o f :
                    e \in BOOLEAN, b \in ForestsOf(k - 1, K), f \in ClausesOf(n - k, c, K)}
                : k \in 1..n}

StmtsOf(n, K) ==
    (IF n = 1 THEN {Stmt(k, TRUE, <<>>, <<>>) : k \in LeafKinds \cap K} ELSE {})
    \cup {Stmt(k, TRUE, b, <<>>) : k \in BlockKinds \cap K, b \in ForestsOf(n - 1, K)}
    \cup (IF "If" \in K THEN IfsOf(n, K) ELSE {})
    \cup {Stmt("Switch", e, b, <<>>) :
            e \in (IF "Switch" \in K THEN BOOLEAN ELSE {}), b \in ClausesOf(n - 1, "CaseClause", K)}
    \cup {Stmt("TypeSwitch", TRUE, b, <<>>) :
            b \in (IF "TypeSwitch" \in K THEN ClausesOf(n - 1, "CaseClause", K) ELSE {})}
    \cup {Stmt("Select", TRUE, b, <<>>) :
            b \in (IF "Select" \in K THEN ClausesOf(n - 1, "CommClause", K) ELSE {})}

\* the function bodies that are one statement of any kind
StmtBodies == {<<s>> : s \in UNION {StmtsOf(n, AllKinds) : n \in 1..MaxNodesAll}}

\* the function bodies that are a list of statements of CoreKinds
CoreBodies == UNION {ForestsOf(n, CoreKinds) : n \in 0..MaxNodesCore}

\* the function bodies that are a list of statements of SkipKinds: branching
\* statements with statements visitStmt ignores among them
SkipBodies == UNION {ForestsOf(n, SkipKinds) : n \in 0..MaxNodesSkip}

RECURSIVE Span(_)
RECURSIVE SpanList(_)
\* the lines a statement takes: its header, its body, its else part
Span(s) == 1 + SpanList(s.body) + SpanList(s.els)

SpanList(l) == IF l = <<>> THEN 0 ELSE Span(Head(l)) + SpanList(Tail(l))

(***************************************************************************)
(* Branch (parse.go): [Type, Line, Children, hasReturn].                   *)
(***************************************************************************)
Branch(t, l, c, h) == [Type |-> t, Line |-> l, Children |-> c, hasReturn |-> h]

RECURSIVE ExtractBranches(_, _)
RECURSIVE visitStmt(_, _)
RECURSIVE parseIfStmt(_, _)
RECURSIVE ElseIfChain(_, _)
RECURSIVE parseClauses(_, _, _, _)

\* parseReturnStmt: a leaf with the flag set
parseReturnStmt(s, line) == Branch("BranchReturn", line, <<>>, TRUE)

RECURSIVE ElseIfChain_Nested(_, _)
\* ElseIfChain putting the rest of the chain under the link before it
ElseIfChain_Nested(curr, line) ==
    LET eline == line + 1 + SpanList(curr.body)
        rest  == IF curr.els = <<>> THEN <<>>
                 ELSE IF curr.els[1].kind = "If" THEN ElseIfChain_Nested(curr.els[1], eline)
                 ELSE <<Branch("BranchElse", eline,
                               ExtractBranches(curr.els[1].body, eline + 1), FALSE)>>
    IN  <<Branch("BranchElseIf", line, ExtractBranches(curr.body, line + 1) \o rest, FALSE)>>

\* the loop of parseIfStmt over the else-if links, from the link curr at
\* line: one BranchElseIf per link, then the BranchElse of a final else block
ElseIfChain(curr, line) ==
    LET link == Branch("BranchElseIf", line, ExtractBranches(curr.body, line + 1), FALSE)
        eline == line + 1 + SpanList(curr.body)
    IN  IF curr.els = <<>> THEN <<link>>
        ELSE IF curr.els[1].kind = "If" THEN <<link>> \o ElseIfChain(curr.els[1], eline)
        ELSE <<link, Branch("BranchElse", eline,
                            ExtractBranches(curr.els[1].body, eline + 1), FALSE)>>

\* parseIfStmt returning the host also when the if clause is its only child
parseIfStmt_AlwaysHost(s, line) ==
    LET first == Branch("BranchIf", line, ExtractBranches(s.body, line + 1), FALSE)
        eline == line + 1 + SpanList(s.body)
        rest  == IF s.els = <<>> THEN <<>>
                 ELSE IF s.els[1].kind = "If" THEN ElseIfChain(s.els[1], eline)
                 ELSE <<Branch("BranchElse", eline,
                               ExtractBranches(s.els[1].body, eline + 1), FALSE)>>
    IN  Branch("BranchIfHost", line, <<first>> \o rest, FALSE)

\* parseIfStmt: the host with the if clause, the else-if links and the else
\* as its children; a host with one child is replaced by that child
parseIfStmt(s, line) ==
    LET first == Branch("BranchIf", line, ExtractBranches(s.body, line + 1), FALSE)
        eline == line + 1 + SpanList(s.body)
        rest  == IF s.els = <<>> THEN <<>>
                 ELSE IF s.els[1].kind = "If" THEN ElseIfChain(s.els[1], eline)
                 ELSE <<Branch("BranchElse", eline,
                               ExtractBranches(s.els[1].body, eline + 1), FALSE)>>
        b     == Branch("BranchIfHost", line, <<first>> \o rest, FALSE)
    IN  IF Len(b.Children) = 1 THEN b.Children[1] ELSE b

parseForStmt(s, line) ==
    Branch("BranchFor", line, ExtractBranches(s.body, line + 1), FALSE)

parseRangeStmt(s, line) ==
    Branch("BranchRange", line, ExtractBranches(s.body, line + 1), FALSE)

\* the clause loop of parseSwitchStmt, parseTypeSwitchStmt and
\* parseSelectStmt: one child per clause, typ for a clause with its
\* expression and dflt for the default clause
parseClauses(cl, line, typ, dflt) ==
    IF cl = <<>> THEN <<>>
    ELSE LET cs == Head(cl)
         IN  <<Branch(IF cs.expr THEN typ ELSE dflt, line,
                      ExtractBranches(cs.body, line + 1), FALSE)>>
             \o parseClauses(Tail(cl), line + Span(cs), typ, dflt)

parseSwitchStmt(s, line) ==
    Branch("BranchSwitch", line,
           parseClauses(s.body, line + 1, "BranchCase", "BranchDefault"), FALSE)

parseTypeSwitchStmt(s, line) ==
    Branch("BranchTypeSwitch", line,
           parseClauses(s.body, line + 1, "BranchCase", "BranchDefault"), FALSE)

parseSelectStmt(s, line) ==
    Branch("BranchSelect", line,
           parseClauses(s.body, line + 1, "BranchCommClause", "BranchCommClauseDefault"),
           FALSE)

\* parseBlockStmt: a block with one extracted child is replaced by it
parseBlockStmt(s, line) ==
    LET b == Branch("BranchBlock", line, ExtractBranches(s.body, line + 1), FALSE)
    IN  IF Len(b.Children) = 1 THEN b.Children[1] ELSE b

\* visitStmt: what the statement appends to the output list
visitStmt(s, line) ==
    CASE s.kind = "Return"     -> <<parseReturnStmt(s, line)>>
      [] s.kind = "If"         -> <<parseIfStmt(s, line)>>
      [] s.kind = "For"        -> <<parseForStmt(s, line)>>
      [] s.kind = "Range"      -> <<parseRangeStmt(s, line)>>
      [] s.kind = "Switch"     -> <<parseSwitchStmt(s, line)>>
      [] s.kind = "TypeSwitch" -> <<parseTypeSwitchStmt(s, line)>>
      [] s.kind = "Select"     -> <<parseSelectStmt(s, line)>>
      [] s.kind = "Block"      -> <<parseBlockStmt(s, line)>>
      [] OTHER                 -> <<>>

RECURSIVE ExtractBranches_StopAtOther(_, _)
\* ExtractBranches leaving its loop at the first statement visitStmt ignores
ExtractBranches_StopAtOther(list, line) ==
    IF list = <<>> \/ Head(list).kind = "Assign" THEN <<>>
    ELSE visitStmt(Head(list), line)
         \o ExtractBranches_StopAtOther(Tail(list), line + Span(Head(list)))

\* ExtractBranches and extractFromStmtList: the statements of a list in
\* order, the first one at line
ExtractBranches(list, line) ==
    IF list = <<>> THEN <<>>
    ELSE visitStmt(Head(list), line) \o ExtractBranches(Tail(list), line + Span(Head(list)))

RECURSIVE nodeToCodePanics(_)
\* nodeToCode dereferences SwitchStmt.Tag, which is nil for a switch
\* without a tag expression: true iff extracting the list panics
nodeToCodePanics(list) ==
    \E i \in 1..Len(list) :
        \/ list[i].kind = "Switch" /\ ~list[i].expr
        \/ nodeToCodePanics(list[i].body)
        \/ nodeToCodePanics(list[i].els)

(***************************************************************************)
(* Branch.HasReturn: the answer and the branch with the flags it set.      *)
(***************************************************************************)
RECURSIVE HasReturn(_)
RECURSIVE HasReturnLoop(_, _)

RECURSIVE HasReturnLoop_FirstChild(_, _)
\* HasReturnLoop looking at the first child only
HasReturnLoop_FirstChild(b, i) ==
    IF i > Len(b.Children) \/ i > 1 THEN [ret |-> FALSE, b |-> b]
    ELSE LET r  == HasReturn(b.Children[i])
             b1 == [b EXCEPT !.Children[i] = r.b]
         IN  IF r.ret THEN [ret |-> TRUE, b |-> [b1 EXCEPT !.hasReturn = TRUE]]
             ELSE HasReturnLoop_FirstChild(b1, i + 1)

RECURSIVE HasReturnLoop_EagerFlag(_, _)
\* HasReturnLoop setting the flag before it has found a return
HasReturnLoop_EagerFlag(b, i) ==
    IF i > Len(b.Children) THEN [ret |-> FALSE, b |-> [b EXCEPT !.hasReturn = TRUE]]
    ELSE LET r  == HasReturn(b.Children[i])
             b1 == [b EXCEPT !.Children[i] = r.b]
         IN  IF r.ret THEN [ret |-> TRUE, b |-> [b1 EXCEPT !.hasReturn = TRUE]]
             ELSE HasReturnLoop_EagerFlag(b1, i + 1)

\* the loop over b.Children from child i on
HasReturnLoop(b, i) ==
    IF i > Len(b.Children) THEN [ret |-> FALSE, b |-> b]
    ELSE LET r  == HasReturn(b.Children[i])
             b1 == [b EXCEPT !.Children[i] = r.b]
         IN  IF r.ret THEN [ret |-> TRUE, b |-> [b1 EXCEPT !.hasReturn = TRUE]]
             ELSE HasReturnLoop(b1, i + 1)

HasReturn(b) ==
    IF b.hasReturn THEN [ret |-> TRUE, b |-> b] ELSE HasReturnLoop(b, 1)


(***************************************************************************)
(* Branch trees: paths to nodes, subtrees.                                 *)
(***************************************************************************)
RECURSIVE NodesOf(_)
\* every branch of a forest, at any depth
NodesOf(forest) ==
    UNION {{forest[i]} \cup NodesOf(forest[i].Children) : i \in 1..Len(forest)}

RECURSIVE PathsOf(_)
\* the paths (child indices from the top) to the branches of a forest
PathsOf(forest) ==
    UNION {{<<i>>} \cup {<<i>> \o p : p \in PathsOf(forest[i].Children)} : i \in 1..Len(forest)}

RECURSIVE CallAt(_, _)
\* the forest after HasReturn() is called on the branch at path p
CallAt(forest, p) ==
    IF Len(p) = 1 THEN [forest EXCEPT ![p[1]] = HasReturn(forest[p[1]]).b]
    ELSE [forest EXCEPT ![p[1]].Children = CallAt(forest[p[1]].Children, Tail(p))]

(***************************************************************************)
(* The filters of main.go on one branch forest.                            *)
(***************************************************************************)
RECURSIVE trimNoReturnBranch(_)
RECURSIVE trimLoop(_, _, _)

RECURSIVE trimLoop_NoRecursion(_, _, _)
\* trimLoop without the recursive call on a kept child
trimLoop_NoRecursion(children, i, newBranch) ==
    IF i > Len(children) THEN newBranch
    ELSE LET r == HasReturn(children[i])
         IN  IF r.ret
             THEN trimLoop_NoRecursion(children, i + 1, Append(newBranch, r.b))
             ELSE trimLoop_NoRecursion(children, i + 1, newBranch)

RECURSIVE trimLoop_Prepend(_, _, _)
\* trimLoop putting a kept child before the ones kept so far
trimLoop_Prepend(children, i, newBranch) ==
    IF i > Len(children) THEN newBranch
    ELSE LET r == HasReturn(children[i])
         IN  IF r.ret
             THEN trimLoop_Prepend(children, i + 1, <<trimNoReturnBranch(r.b)>> \o newBranch)
             ELSE trimLoop_Prepend(children, i + 1, newBranch)

\* the loop of trimNoReturnBranch over branch.Children from child i on,
\* newBranch the children kept so far
trimLoop(children, i, newBranch) ==
    IF i > Len(children) THEN newBranch
    ELSE LET r == HasReturn(children[i])
         IN  IF r.ret
             THEN trimLoop(children, i + 1, Append(newBranch, trimNoReturnBranch(r.b)))
             ELSE trimLoop(children, i + 1, newBranch)

trimNoReturnBranch(branch) ==
    [branch EXCEPT !.Children = trimLoop(branch.Children, 1, <<>>)]

\* the body of trimByPaths' loops for one method: a fresh root over the
\* method's branches is trimmed and its children are the method's branches
trimMethod(method) ==
    [method EXCEPT !.Branches =
        trimNoReturnBranch(Branch("", 0, method.Branches, FALSE)).Children]

(***************************************************************************)
(* Identifiers.                                                            *)
(***************************************************************************)
UpperCase == {"A", "B", "E", "F", "M", "N", "W"}

\* ast.IsExported: the name starts with an upper-case letter
IsExported(name) == name # <<>> /\ name[1] \in UpperCase

\* strings.ToLower, letter by letter
LowerOf(c) ==
    CASE c = "A" -> "a" [] c = "B" -> "b" [] c = "E" -> "e" [] c = "F" -> "f"
      [] c = "M" -> "m" [] c = "N" -> "n" [] c = "W" -> "w" [] OTHER -> c

ToLower(name) == [i \in 1..Len(name) |-> LowerOf(name[i])]

(***************************************************************************)
(* The input file: type declarations [name, isStruct] and function         *)
(* declarations [name, recv, hasBody, body]; recv is the receiver's type   *)
(* expression [form, name]: "none", "ident" (a type name T), "star" (a     *)
(* pointer to T), or "index" (T[K], a generic receiver).                   *)
(***************************************************************************)
TypeDecl(n, st) == [name |-> n, isStruct |-> st]
Recv(f, n) == [form |-> f, name |-> n]
FuncDecl(n, r, hb, b) == [name |-> n, recv |-> r, hasBody |-> hb, body |-> b]

NoRecv == Recv("none", <<>>)
ReturnOnly == <<Stmt("Return", TRUE, <<>>, <<>>)>>

TypeDecls ==
    {TypeDecl(<<"A">>, TRUE), TypeDecl(<<"a">>, TRUE), TypeDecl(<<"B">>, FALSE)}

FreeNames ==
    {<<"N", "e", "w", "A">>, <<"n", "e", "w", "A">>, <<"N", "E", "W", "A">>,
     <<"N", "e", "w", "B">>, <<"F">>}

FuncDecls ==
    {FuncDecl(n, NoRecv, TRUE, ReturnOnly) : n \in FreeNames}
    \cup {FuncDecl(<<"M">>, r, TRUE, ReturnOnly) :
            r \in {Recv("ident", <<"A">>), Recv("star", <<"A">>), Recv("ident", <<"B">>),
                   Recv("index", <<"A">>)}}

RECURSIVE SeqsUpTo(_, _)
\* the sequences over S of length at most n
SeqsUpTo(S, n) ==
    IF n = 0 THEN {<<>>}
    ELSE LET shorter == SeqsUpTo(S, n - 1)
         IN  shorter \cup {Append(q, x) : q \in shorter, x \in S}

\* a Go file declares a type name once
DistinctNames(ts) == \A i, j \in 1..Len(ts) : ts[i].name = ts[j].name => i = j

SourceFile(okv, ts, fs) == [ok |-> okv, types |-> ts, funcs |-> fs]

\* no type and one free function F: its body one statement of any kind, or
\* no body at all
StmtFiles ==
    {SourceFile(TRUE, <<>>, <<FuncDecl(<<"F">>, NoRecv, TRUE, b)>>) : b \in StmtBodies}
    \cup {SourceFile(TRUE, <<>>, <<FuncDecl(<<"F">>, NoRecv, FALSE, <<>>)>>)}

\* no type and one free function F: its body a list of CoreKinds
CoreFiles ==
    {SourceFile(TRUE, <<>>, <<FuncDecl(<<"F">>, NoRecv, TRUE, b)>>) : b \in CoreBodies}

\* no type and one free function F: its body a list of SkipKinds
SkipFiles ==
    {SourceFile(TRUE, <<>>, <<FuncDecl(<<"F">>, NoRecv, TRUE, b)>>) : b \in SkipBodies}

BodyFiles == StmtFiles \cup CoreFiles

\* several types and functions, every function body a single return
DeclFiles ==
    {SourceFile(TRUE, ts, fs) :
        ts \in {t \in SeqsUpTo(TypeDecls, MaxTypes) : DistinctNames(t)},
        fs \in SeqsUpTo(FuncDecls, MaxFuncs)}

\* the struct types A and a, whose names differ in letter case only, with
\* methods of both and the free function F
CaseFiles ==
    {SourceFile(TRUE, <<TypeDecl(<<"A">>, TRUE), TypeDecl(<<"a">>, TRUE)>>, fs) :
        fs \in SeqsUpTo({FuncDecl(<<"M">>, Recv("ident", <<"A">>), TRUE, ReturnOnly),
                         FuncDecl(<<"M">>, Recv("star", <<"a">>), TRUE, ReturnOnly),
                         FuncDecl(<<"F">>, NoRecv, TRUE, ReturnOnly)}, MaxFuncs)}

\* a file go/parser rejects
BadFile == SourceFile(FALSE, <<>>, <<>>)

\* at most one type and at most one function, nEwA among the names
SmallFiles ==
    {SourceFile(TRUE, ts, fs) :
        ts \in SeqsUpTo(TypeDecls, 1),
        fs \in SeqsUpTo(FuncDecls \cup {FuncDecl(<<"n", "E", "w", "A">>, NoRecv, TRUE, ReturnOnly)}, 1)}

ScopeValues == {"func", "struct", "all"}
PathsValues == {"all", "return"}

(***************************************************************************)
(* ParseFile (parse.go).                                                   *)
(***************************************************************************)
StructInfo(n, ms) == [Name |-> n, IsExported |-> IsExported(n), Methods |-> ms]
FuncInfo(r, n, bs) ==
    [Receiver |-> r, Name |-> n, IsExported |-> IsExported(n), Branches |-> bs]

GetReceiverType(fn) ==
    IF fn.recv.form \in {"ident", "star"} THEN fn.recv.name ELSE <<>>

RECURSIVE StructGroups(_)
\* the first loop of ParseFile: one group per struct type declaration
StructGroups(ts) ==
    IF ts = <<>> THEN <<>>
    ELSE (IF Head(ts).isStruct THEN <<StructInfo(Head(ts).name, <<>>)>> ELSE <<>>)
         \o StructGroups(Tail(ts))

\* InitialGroups with the test of structTypes[""] inverted: no group with
\* the empty name is added
InitialGroups_NoDummy(f) ==
    LET structs == StructGroups(f.types)
    IN  IF \E i \in 1..Len(structs) : structs[i].Name = <<>>
        THEN Append(structs, StructInfo(<<>>, <<>>)) ELSE structs

\* the group list before the function loop: the struct groups, then the
\* group with the empty name unless a group has that name
InitialGroups(f) ==
    LET structs == StructGroups(f.types)
    IN  IF \E i \in 1..Len(structs) : structs[i].Name = <<>>
        THEN structs ELSE Append(structs, StructInfo(<<>>, <<>>))

\* structTypes[name]: the index of the group of that name, 0 for nil
structTypes(structs, name) ==
    IF \E i \in 1..Len(structs) : structs[i].Name = name
    THEN CHOOSE i \in 1..Len(structs) :
            /\ structs[i].Name = name
            /\ \A j \in (i + 1)..Len(structs) : structs[j].Name # name
    ELSE 0

\* the function loop of ParseFile panics: block.List of a nil body, the nil
\* Tag of a switch in nodeToCode, or si.Methods of a nil si
ParseFilePanics(f) ==
    \E i \in 1..Len(f.funcs) :
        \/ ~f.funcs[i].hasBody
        \/ nodeToCodePanics(f.funcs[i].body)
        \/ structTypes(InitialGroups(f), GetReceiverType(f.funcs[i])) = 0

RECURSIVE AddFuncs(_, _)
\* the function loop of ParseFile
AddFuncs(structs, fs) ==
    IF fs = <<>> THEN structs
    ELSE LET fn   == Head(fs)
             si   == structTypes(structs, GetReceiverType(fn))
             info == FuncInfo(GetReceiverType(fn), fn.name, ExtractBranches(fn.body, 1))
         IN  AddFuncs([structs EXCEPT ![si].Methods = Append(@, info)], Tail(fs))

ParseFileResult(f) == AddFuncs(InitialGroups(f), f.funcs)


(***************************************************************************)
(* The filters of main.go on the group list.                               *)
(***************************************************************************)
IsNamed(g) == g.Name # <<>>

\* trimByScope with the cases func and struct swapped
trimByScope_Swapped(sc, si) ==
    CASE sc = "struct" ->
            IF \E i \in 1..Len(si) : si[i].Name = <<>>
            THEN <<si[CHOOSE i \in 1..Len(si) :
                        /\ si[i].Name = <<>>
                        /\ \A j \in 1..(i - 1) : si[j].Name # <<>>]>>
            ELSE si
      [] sc = "func" -> SelectSeq(si, IsNamed)
      [] OTHER -> si

trimByScope(sc, si) ==
    CASE sc = "func" ->
            IF \E i \in 1..Len(si) : si[i].Name = <<>>
            THEN <<si[CHOOSE i \in 1..Len(si) :
                        /\ si[i].Name = <<>>
                        /\ \A j \in 1..(i - 1) : si[j].Name # <<>>]>>
            ELSE si
      [] sc = "struct" -> SelectSeq(si, IsNamed)
      [] OTHER -> si

\* trimByPaths trimming whatever the value of paths
trimByPaths_AllModes(pa, si) ==
    [i \in 1..Len(si) |->
        [si[i] EXCEPT !.Methods =
            [ii \in 1..Len(si[i].Methods) |-> trimMethod(si[i].Methods[ii])]]]

trimByPaths(pa, si) ==
    IF pa # "return" THEN si
    ELSE [i \in 1..Len(si) |->
            [si[i] EXCEPT !.Methods =
                [ii \in 1..Len(si[i].Methods) |-> trimMethod(si[i].Methods[ii])]]]

HasMethods(g) == Len(g.Methods) # 0

\* trimNoMethod keeping every group
trimNoMethod_KeepAll(si) == si

trimNoMethod(si) == SelectSeq(si, HasMethods)

\* CtorNames without the keys "new"+name
CtorNames_UpperOnly(si) ==
    {<<"N", "e", "w">> \o si[i].Name : i \in {j \in 1..Len(si) : si[j].Name # <<>>}}

\* the keys of the map m of trimConstructor
CtorNames(si) ==
    UNION {{<<"N", "e", "w">> \o si[i].Name, <<"n", "e", "w">> \o si[i].Name} :
            i \in {j \in 1..Len(si) : si[j].Name # <<>>}}

\* funcInfo: the index of the last group with the empty name, 0 for nil
funcInfoOf(si) ==
    IF \E i \in 1..Len(si) : si[i].Name = <<>>
    THEN CHOOSE i \in 1..Len(si) :
            /\ si[i].Name = <<>>
            /\ \A j \in (i + 1)..Len(si) : si[j].Name # <<>>
    ELSE 0

\* DropCtors leaving the loop at the first constructor (break for continue)
DropCtors_Break(methods, m) ==
    IF \E k \in 1..Len(methods) : methods[k].Name \in m
    THEN SubSeq(methods, 1, (CHOOSE k \in 1..Len(methods) :
                                /\ methods[k].Name \in m
                                /\ \A j \in 1..(k - 1) : methods[j].Name \notin m) - 1)
    ELSE methods

RECURSIVE DropCtors(_, _)
\* the second loop of trimConstructor
DropCtors(methods, m) ==
    IF methods = <<>> THEN <<>>
    ELSE (IF Head(methods).Name \in m THEN <<>> ELSE <<Head(methods)>>)
         \o DropCtors(Tail(methods), m)

trimConstructor(si) ==
    IF funcInfoOf(si) = 0 THEN si
    ELSE [si EXCEPT ![funcInfoOf(si)].Methods = DropCtors(@, CtorNames(si))]

(***************************************************************************)
(* GenerateTestFiles and GenerateTestFile (generate.go).                   *)
(***************************************************************************)
\* a line on stdout or stderr
Msg(st, t) == [stream |-> st, text |-> t]

NothingFound == "No testable functions/methods found."

\* the file name of a group after the directory and the base name of the
\* source file, which are the same for every group of a run
OutFile(name) ==
    IF name = <<>> THEN <<"_test.go">>
    ELSE <<"_">> \o ToLower(name) \o <<"_suite_test.go">>

\* what GenerateTestFile does for one group: it writes the formatted text;
\* format.Source fails and it writes the text as rendered; tmpl.Execute
\* fails and it returns the error before any write; os.WriteFile fails
RenderOutcomes == {"formatted", "unformatted", "executeError", "writeError"}

FileWrite(f, g, c) == [file |-> f, group |-> g, content |-> c]

RECURSIVE GenerateLoop(_, _, _, _, _)
\* the loop of GenerateTestFiles from group i on: w the files written and p
\* the lines printed so far; it returns at the first error
GenerateLoop(ss, oc, i, w, p) ==
    IF i > Len(ss) THEN [written |-> w, printed |-> p, err |-> FALSE]
    ELSE IF oc[i] \in {"executeError", "writeError"}
    THEN [written |-> w, printed |-> p, err |-> TRUE]
    ELSE GenerateLoop(ss, oc, i + 1,
                      Append(w, FileWrite(OutFile(ss[i].Name), ss[i].Name, oc[i])),
                      Append(p, Msg("stdout", "Generated")))

(***************************************************************************)
(* main.                                                                   *)
(***************************************************************************)
\* the flags and the file of a run: every flag value, also one main
\* rejects, with the small files; the larger files with the flags that
\* matter to them
Init ==
    /\ \/ /\ file \in StmtFiles
          /\ scope = "all"
          /\ paths = "return"
          /\ noctor = TRUE
       \/ /\ file \in CoreFiles
          /\ scope = "all"
          /\ paths \in PathsValues
          /\ noctor = TRUE
       \/ /\ file \in SkipFiles
          /\ scope = "all"
          /\ paths = "all"
          /\ noctor = TRUE
       \/ /\ file \in DeclFiles
          /\ scope \in ScopeValues
          /\ paths = "all"
          /\ noctor = TRUE
       \/ /\ file \in CaseFiles
          /\ scope \in {"struct", "all"}
          /\ paths = "all"
          /\ noctor = TRUE
       \/ /\ file \in SmallFiles \cup {BadFile}
          /\ scope \in ScopeValues \cup {"bogus"}
          /\ paths \in PathsValues \cup {"bogus"}
          /\ noctor \in BOOLEAN
    /\ pc = "flags"
    /\ structInfo = <<>>
    /\ handed = <<>>
    /\ written = <<>>
    /\ printed = <<>>

\* main.go:140-152: the flag values are checked
CheckFlags ==
    /\ pc = "flags"
    /\ IF scope \in ScopeValues /\ paths \in PathsValues
       THEN pc' = "parse" /\ UNCHANGED printed
       ELSE pc' = "exit1" /\ printed' = Append(printed, Msg("stderr", "error: flag"))
    /\ UNCHANGED <<file, scope, paths, noctor, structInfo, handed, written>>

\* main.go:154-163: ParseFile and the test of an empty list
ParseFile ==
    /\ pc = "parse"
    /\ IF ~file.ok
       THEN /\ pc' = "exit1"
            /\ printed' = Append(printed, Msg("stderr", "error: parse"))
            /\ UNCHANGED structInfo
       ELSE IF ParseFilePanics(file)
       THEN pc' = "panic" /\ UNCHANGED <<structInfo, printed>>
       ELSE /\ structInfo' = ParseFileResult(file)
            /\ IF Len(structInfo') = 0
               THEN /\ pc' = "nothing"
                    /\ printed' = Append(printed, Msg("stdout", NothingFound))
               ELSE pc' = "scope" /\ UNCHANGED printed
    /\ UNCHANGED <<file, scope, paths, noctor, handed, written>>

TrimByScope ==
    /\ pc = "scope"
    /\ structInfo' = trimByScope(scope, structInfo)
    /\ pc' = "paths"
    /\ UNCHANGED <<file, scope, paths, noctor, handed, written, printed>>

TrimByPaths ==
    /\ pc = "paths"
    /\ structInfo' = trimByPaths(paths, structInfo)
    /\ pc' = "ctor"
    /\ UNCHANGED <<file, scope, paths, noctor, handed, written, printed>>

TrimConstructor ==
    /\ pc = "ctor"
    /\ structInfo' = IF noctor THEN trimConstructor(structInfo) ELSE structInfo
    /\ pc' = "nomethod"
    /\ UNCHANGED <<file, scope, paths, noctor, handed, written, printed>>

TrimNoMethod ==
    /\ pc = "nomethod"
    /\ structInfo' = trimNoMethod(structInfo)
    /\ pc' = "generate"
    /\ UNCHANGED <<file, scope, paths, noctor, handed, written, printed>>

\* main.go:172-177: the list is handed to GenerateTestFiles; text/template,
\* go/format and the file system answer as oc says, group by group
GenerateTestFiles ==
    /\ pc = "generate"
    /\ handed' = structInfo
    /\ \E oc \in [1..Len(structInfo) -> RenderOutcomes] :
         LET r == GenerateLoop(structInfo, oc, 1, written, printed)
         IN  /\ written' = r.written
             /\ IF r.err
                THEN /\ printed' = Append(r.printed, Msg("stderr", "error: generate"))
                     /\ pc' = "exit1"
                ELSE /\ printed' = Append(r.printed, Msg("stdout", "Done"))
                     /\ pc' = "done"
    /\ UNCHANGED <<file, scope, paths, noctor, structInfo>>

Next ==
    \/ CheckFlags
    \/ ParseFile
    \/ TrimByScope
    \/ TrimByPaths
    \/ TrimConstructor
    \/ TrimNoMethod
    \/ GenerateTestFiles

Spec == Init /\ [][Next]_vars


(***************************************************************************)
(* The cache of HasReturn under any order of calls: after ParseFile, any   *)
(* caller may call HasReturn on any branch and may trim any method, any    *)
(* number of times.                                                        *)
(***************************************************************************)
\* the methods of the list: <<group index, method index>>
MethodsOf(si) == UNION {{<<g, m>> : m \in 1..Len(si[g].Methods)} : g \in 1..Len(si)}

CallHasReturn ==
    /\ pc = "scope"
    /\ \E gm \in MethodsOf(structInfo) :
         \E p \in PathsOf(structInfo[gm[1]].Methods[gm[2]].Branches) :
            structInfo' = [structInfo EXCEPT ![gm[1]].Methods[gm[2]].Branches = CallAt(@, p)]
    /\ UNCHANGED <<file, scope, paths, noctor, pc, handed, written, printed>>

CallTrim ==
    /\ pc = "scope"
    /\ \E gm \in MethodsOf(structInfo) :
            structInfo' = [structInfo EXCEPT ![gm[1]].Methods[gm[2]] = trimMethod(@)]
    /\ UNCHANGED <<file, scope, paths, noctor, pc, handed, written, printed>>

NextCache ==
    \/ CheckFlags
    \/ ParseFile
    \/ CallHasReturn
    \/ CallTrim

SpecCache == Init /\ [][NextCache]_vars

(***************************************************************************)
(* Vocabulary of the properties.                                           *)
(***************************************************************************)
RECURSIVE ReachesReturn(_)
\* the branch is a return or has a return among its descendants
ReachesReturn(b) ==
    \/ b.Type = "BranchReturn"
    \/ \E i \in 1..Len(b.Children) : ReachesReturn(b.Children[i])

RECURSIVE Shape(_)
\* a forest without its cached flags
Shape(forest) ==
    [i \in 1..Len(forest) |->
        [Type |-> forest[i].Type, Line |-> forest[i].Line,
         Children |-> Shape(forest[i].Children)]]

RECURSIVE KeepReaching(_)
\* the shape of a forest with every branch that does not reach a return cut
\* out, at every level
KeepReaching(forest) ==
    IF forest = <<>> THEN <<>>
    ELSE (IF ReachesReturn(Head(forest))
          THEN <<[Type |-> Head(forest).Type, Line |-> Head(forest).Line,
                  Children |-> KeepReaching(Head(forest).Children)]>>
          ELSE <<>>)
         \o KeepReaching(Tail(forest))

\* the branch forests of the methods of a group list
ForestsIn(si) == {si[gm[1]].Methods[gm[2]].Branches : gm \in MethodsOf(si)}

\* every branch of every method of a group list
BranchesIn(si) == UNION {NodesOf(f) : f \in ForestsIn(si)}

\* out is the elements of in at the indices idx, in order
KeptInOrder(out, in, idx) ==
    /\ Len(out) = Cardinality(idx)
    /\ \A i \in idx : out[Cardinality({j \in idx : j < i}) + 1] = in[i]

AfterPaths == pc \in {"ctor", "nomethod", "generate", "done"}

\* the branch forest of the only function of a BodyFiles input, as extracted
Extracted == ExtractBranches(file.funcs[1].body, 1)

(***************************************************************************)
(* C1: after the reachability filter has run with paths=return, every      *)
(* remaining leaf branch is a return branch and every remaining interior   *)
(* branch has a return branch among its remaining descendants.             *)
(***************************************************************************)
C1_ReachabilityInvariant ==
    (AfterPaths /\ paths = "return") =>
        \A b \in BranchesIn(structInfo) :
            /\ b.Children = <<>> => b.Type = "BranchReturn"
            /\ b.Children # <<>> =>
                \E d \in NodesOf(b.Children) : d.Type = "BranchReturn"

\* the filter has run, it removed a branch, and an interior branch remains
C1_Witness ==
    /\ pc = "ctor" /\ paths = "return" /\ file \in BodyFiles /\ file.funcs[1].hasBody
    /\ \E b \in BranchesIn(structInfo) : b.Children # <<>>
    /\ Cardinality(BranchesIn(structInfo)) < Cardinality(NodesOf(Extracted))

(***************************************************************************)
(* C2: under paths=return the filter keeps exactly the branches that are a *)
(* return or have a return among their descendants in the unfiltered tree, *)
(* at every level under a kept branch, drops the whole subtree of a branch *)
(* it does not keep, and keeps the order of the kept siblings; the groups  *)
(* and methods themselves stay as they are.                                *)
(***************************************************************************)
C2_FilterKeepsReaching ==
    [][(pc = "paths" /\ paths = "return") =>
        /\ Len(structInfo') = Len(structInfo)
        /\ \A g \in 1..Len(structInfo) :
            /\ Len(structInfo'[g].Methods) = Len(structInfo[g].Methods)
            /\ structInfo'[g].Name = structInfo[g].Name
            /\ \A m \in 1..Len(structInfo[g].Methods) :
                /\ structInfo'[g].Methods[m].Name = structInfo[g].Methods[m].Name
                /\ Shape(structInfo'[g].Methods[m].Branches)
                     = KeepReaching(structInfo[g].Methods[m].Branches)]_vars

\* the filter has run on a forest where it kept a branch with only some of
\* its children and dropped a branch with children
C2_Witness ==
    /\ pc = "ctor" /\ paths = "return" /\ file \in BodyFiles /\ file.funcs[1].hasBody
    /\ \E b \in NodesOf(Extracted) :
        /\ ReachesReturn(b)
        /\ \E i \in 1..Len(b.Children) : ~ReachesReturn(b.Children[i])
    /\ \E b \in NodesOf(Extracted) : ~ReachesReturn(b) /\ b.Children # <<>>
    /\ \E f \in ForestsIn(structInfo) : f # <<>>

(***************************************************************************)
(* C3: on every branch of an extracted tree, HasReturn() is true exactly   *)
(* when the branch is a return branch or has one among its descendants; a  *)
(* return branch is a leaf with no children and its flag set.              *)
(***************************************************************************)
C3_HasReturnIffReaches ==
    pc = "scope" =>
        \A b \in BranchesIn(structInfo) :
            /\ HasReturn(b).ret <=> ReachesReturn(b)
            /\ b.Type = "BranchReturn" => (b.Children = <<>> /\ b.hasReturn)

\* an extracted tree with a branch that reaches a return two levels down and
\* a branch that reaches none
C3_Witness ==
    /\ pc = "scope"
    /\ \E b \in BranchesIn(structInfo) :
        /\ b.Type # "BranchReturn"
        /\ \E i \in 1..Len(b.Children) :
            /\ b.Children[i].Type # "BranchReturn"
            /\ HasReturn(b.Children[i]).ret
    /\ \E b \in BranchesIn(structInfo) : b.Children # <<>> /\ ~HasReturn(b).ret

(***************************************************************************)
(* C4: whatever HasReturn() calls and trims have happened, a branch whose  *)
(* cached flag is true has a return branch in its current subtree, and a   *)
(* call or a trim does not change the answer of HasReturn() on a branch    *)
(* that is still there.                                                    *)
(***************************************************************************)
CacheSound(si) == \A b \in BranchesIn(si) : b.hasReturn => ReachesReturn(b)

SameAnswers(before, after) ==
    \A b \in BranchesIn(before), c \in BranchesIn(after) :
        (b.Type = c.Type /\ b.Line = c.Line) => (HasReturn(b).ret = HasReturn(c).ret)

C4_CacheNeverStale ==
    [][CacheSound(structInfo') /\ SameAnswers(structInfo, structInfo')]_vars

\* a trim has removed a branch from under a branch whose flag was cached
\* before the trim
C4_Witness ==
    /\ pc = "scope" /\ file \in BodyFiles /\ file.funcs[1].hasBody
    /\ \E b \in BranchesIn(structInfo) :
        /\ b.hasReturn /\ b.Type # "BranchReturn"
        /\ \E o \in NodesOf(Extracted) :
            /\ o.Type = b.Type /\ o.Line = b.Line
            /\ Len(b.Children) < Len(o.Children)


(***************************************************************************)
(* Vocabulary of the constructor claims.                                   *)
(***************************************************************************)
DeclaredTypes(f) == {f.types[i].name : i \in 1..Len(f.types)}
DeclaredStructs(f) == {f.types[i].name : i \in {j \in 1..Len(f.types) : f.types[j].isStruct}}
NamedGroups(si) == {si[i].Name : i \in {j \in 1..Len(si) : si[j].Name # <<>>}}

\* the name is New or new followed by the exact name of a type in T
IsCtorOf(name, T) ==
    \E t \in T : name = <<"N", "e", "w">> \o t \/ name = <<"n", "e", "w">> \o t

\* the name is any letter-case variant of new followed by the exact name of
\* a type in T
IsFoldedCtorOf(name, T) ==
    \E t \in T :
        /\ Len(name) = 3 + Len(t)
        /\ ToLower(SubSeq(name, 1, 3)) = <<"n", "e", "w">>
        /\ SubSeq(name, 4, Len(name)) = t

\* the index of the group with the empty name
FreeGroup(si) == CHOOSE i \in 1..Len(si) : si[i].Name = <<>>

\* the step of the constructor filter from before to after removed from
\* the free-function group exactly the functions whose name satisfies
\* Ctor, and changed nothing else
CtorStep(before, after, drop) ==
    /\ Len(after) = Len(before)
    /\ \A i \in 1..Len(before) : i # FreeGroup(before) => after[i] = before[i]
    /\ after[FreeGroup(before)].Name = <<>>
    /\ KeptInOrder(after[FreeGroup(before)].Methods, before[FreeGroup(before)].Methods,
                   {k \in 1..Len(before[FreeGroup(before)].Methods) : k \notin drop})

\* the methods of the free-function group whose name is New or new and a
\* type of T
CtorsOf(si, T) ==
    {k \in 1..Len(si[FreeGroup(si)].Methods) : IsCtorOf(si[FreeGroup(si)].Methods[k].Name, T)}

C6_AsClaimed ==
    (pc = "nomethod" /\ noctor /\ scope = "all") =>
        \A k \in 1..Len(structInfo[FreeGroup(structInfo)].Methods) :
            ~IsFoldedCtorOf(structInfo[FreeGroup(structInfo)].Methods[k].Name,
                            DeclaredStructs(file))

(***************************************************************************)
(* C6 amended: trimConstructor matches the two prefixes New and new and no *)
(* other letter case: from the list it is given, a free function goes      *)
(* exactly when its name is New or new followed by the exact name of a     *)
(* named group of that list; NEW+T and nEw+T stay.                         *)
(***************************************************************************)
C6_TwoPrefixesOnly ==
    [][(pc = "ctor" /\ noctor /\ (\E i \in 1..Len(structInfo) : structInfo[i].Name = <<>>)) =>
        LET before == structInfo[FreeGroup(structInfo)].Methods
            after  == structInfo'[FreeGroup(structInfo)].Methods
            gone   == {before[k].Name : k \in 1..Len(before)}
                        \ {after[k].Name : k \in 1..Len(after)}
        IN  /\ \A k \in 1..Len(before) :
                IsCtorOf(before[k].Name, NamedGroups(structInfo)) <=> before[k].Name \in gone
            /\ <<"N", "E", "W", "A">> \notin gone /\ <<"n", "E", "w", "A">> \notin gone]_vars

\* trimConstructor has run on a list with the group A: of newA and NEWA,
\* newA is gone and NEWA is left
C6_Witness ==
    /\ pc = "nomethod" /\ noctor /\ scope = "all"
    /\ <<"A">> \in DeclaredStructs(file)
    /\ Len(file.funcs) = 2
    /\ file.funcs[1] = FuncDecl(<<"n", "e", "w", "A">>, NoRecv, TRUE, ReturnOnly)
    /\ file.funcs[2] = FuncDecl(<<"N", "E", "W", "A">>, NoRecv, TRUE, ReturnOnly)
    /\ Len(structInfo[FreeGroup(structInfo)].Methods) = 1
    /\ structInfo[FreeGroup(structInfo)].Methods[1].Name = <<"N", "E", "W", "A">>

(***************************************************************************)
(* C7 as claimed: with the constructor filter on, main's order of filters  *)
(* gives the same final groups as the constructor filter run first on the  *)
(* full list, for every scope; under scope=func no constructor of a        *)
(* declared struct type is left in the free-function group.                *)
(***************************************************************************)
C7_AsClaimed ==
    (pc = "done" /\ noctor) =>
        /\ handed = trimNoMethod(trimByPaths(paths,
                        trimByScope(scope, trimConstructor(ParseFileResult(file)))))
        /\ scope = "func" =>
            \A i \in 1..Len(handed) : \A k \in 1..Len(handed[i].Methods) :
                ~IsCtorOf(handed[i].Methods[k].Name, DeclaredStructs(file))

(***************************************************************************)
(* C8: trimByScope returns the one group with the empty name under         *)
(* scope=func, the groups with a name in their order under scope=struct    *)
(* and the list itself under scope=all; a group it returns has the methods *)
(* it had.                                                                 *)
(***************************************************************************)
C8_ScopeFilter ==
    [][pc = "scope" =>
        /\ scope = "func" =>
            /\ Len(structInfo') = 1
            /\ structInfo'[1].Name = <<>>
            /\ \E i \in 1..Len(structInfo) : structInfo[i] = structInfo'[1]
        /\ scope = "struct" =>
            KeptInOrder(structInfo', structInfo,
                        {i \in 1..Len(structInfo) : structInfo[i].Name # <<>>})
        /\ scope = "all" => structInfo' = structInfo]_vars

\* trimByScope has run with scope=struct on two struct groups with methods
\* and the free-function group: the two are left
C8_Witness ==
    /\ pc = "paths" /\ scope = "struct"
    /\ Len(structInfo) = 2
    /\ \E i \in 1..Len(file.funcs) : file.funcs[i].recv.form = "none"
    /\ \E i \in 1..Len(structInfo) : Len(structInfo[i].Methods) > 0

(***************************************************************************)
(* C9: trimNoMethod keeps exactly the groups with a method, in order, and  *)
(* every group handed to GenerateTestFiles has a method.                   *)
(***************************************************************************)
C9_NoEmptyGroup ==
    [][/\ pc = "nomethod" =>
            KeptInOrder(structInfo', structInfo,
                        {i \in 1..Len(structInfo) : Len(structInfo[i].Methods) >= 1})
       /\ pc' = "done" =>
            \A i \in 1..Len(handed') : Len(handed'[i].Methods) >= 1]_vars

\* a list with a group without methods before a group with methods has been
\* filtered and handed over
C9_Witness ==
    /\ pc = "done" /\ scope = "all"
    /\ Len(file.types) = 2 /\ file.types[1].isStruct /\ file.types[2].isStruct
    /\ Len(handed) = 1 /\ handed[1].Name = file.types[2].name

(***************************************************************************)
(* C10: the list ParseFile returns has exactly one group with the empty    *)
(* name, also for a file without free functions or without struct types,   *)
(* and every function without a receiver is a method of that group.        *)
(***************************************************************************)
C10_OneFreeGroup ==
    pc = "scope" =>
        /\ Cardinality({i \in 1..Len(structInfo) : structInfo[i].Name = <<>>}) = 1
        /\ LET free == {i \in 1..Len(file.funcs) : file.funcs[i].recv.form = "none"}
               ms   == structInfo[FreeGroup(structInfo)].Methods
           IN  /\ Len(ms) >= Cardinality(free)
               /\ \A i \in free : \E k \in 1..Len(ms) :
                    /\ ms[k].Name = file.funcs[i].name
                    /\ ms[k].Receiver = <<>>

\* ParseFile has returned for a file with a struct type, a method of it and
\* no free function: the group with the empty name is there, and empty
C10_Witness ==
    /\ pc = "scope"
    /\ file.funcs # <<>>
    /\ \A i \in 1..Len(file.funcs) : file.funcs[i].recv.form = "ident"
    /\ \E i \in 1..Len(structInfo) : structInfo[i].Name = <<>> /\ structInfo[i].Methods = <<>>

(***************************************************************************)
(* Vocabulary of the grouping claims.                                      *)
(***************************************************************************)
\* the type name a receiver is written with, whatever the form of the
\* receiver; empty for a function without a receiver
ReceiverTypeName(fn) == fn.recv.name

RECURSIVE FuncInfosOf(_, _)
\* the FuncInfo of the functions of fs whose receiver type is t, in the
\* order of their declarations
FuncInfosOf(fs, t) ==
    IF fs = <<>> THEN <<>>
    ELSE (IF ReceiverTypeName(Head(fs)) = t
          THEN <<FuncInfo(t, Head(fs).name, ExtractBranches(Head(fs).body, 1))>>
          ELSE <<>>)
         \o FuncInfosOf(Tail(fs), t)

\* every function of the file has a body and no switch without a tag
Extractable(f) ==
    \A i \in 1..Len(f.funcs) : f.funcs[i].hasBody /\ ~nodeToCodePanics(f.funcs[i].body)

\* every receiver of the file is written T or as a pointer to T, with T a
\* struct type declared in the file
ReceiversAreStructs(f) ==
    \A i \in 1..Len(f.funcs) :
        f.funcs[i].recv.form # "none" =>
            /\ f.funcs[i].recv.form \in {"ident", "star"}
            /\ f.funcs[i].recv.name \in DeclaredStructs(f)

\* the list has one group named t and its methods are the functions of the
\* file with the receiver type t, in declaration order
GroupedUnder(si, f, t) ==
    /\ Cardinality({i \in 1..Len(si) : si[i].Name = t}) = 1
    /\ \A i \in 1..Len(si) : si[i].Name = t => si[i].Methods = FuncInfosOf(f.funcs, t)

(***************************************************************************)
(* C11 as claimed: for a file whose function bodies can all be extracted,  *)
(* ParseFile returns a list, and for the receiver type of every function   *)
(* (empty for a free function) the list has one group of that name, made   *)
(* on first sight if the type is not a declared struct, whose methods are  *)
(* the FuncInfo of the functions with that receiver type in declaration    *)
(* order, value and pointer receivers together.                            *)
(***************************************************************************)
C11_AsClaimed ==
    (pc \in {"scope", "panic"} /\ Extractable(file)) =>
        /\ pc = "scope"
        /\ \A i \in 1..Len(file.funcs) :
                GroupedUnder(structInfo, file, ReceiverTypeName(file.funcs[i]))

\* the part of C11 that holds: the same when every receiver names a struct
\* type declared in the file
C11_ForDeclaredStructs ==
    (pc \in {"scope", "panic"} /\ Extractable(file) /\ ReceiversAreStructs(file)) =>
        /\ pc = "scope"
        /\ \A i \in 1..Len(file.funcs) :
                GroupedUnder(structInfo, file, ReceiverTypeName(file.funcs[i]))

(***************************************************************************)
(* C12 as claimed: no run ends in a panic, whatever the file.              *)
(***************************************************************************)
C12_AsClaimed == pc # "panic"

(***************************************************************************)
(* Vocabulary of the extraction claims: the statement lists of a syntax    *)
(* tree with the line each one starts at.                                  *)
(***************************************************************************)
\* the line of statement i of the list L that starts at line l
LineOf(L, l, i) == l + SpanList(SubSeq(L, 1, i - 1))

RECURSIVE StmtLists(_, _)
RECURSIVE NestedLists(_, _)
\* <<list, line>> for the list L at line l and every statement list nested
\* in it: bodies of loops, blocks, if clauses, else blocks and switch and
\* select clauses
StmtLists(L, l) ==
    {<<L, l>>} \cup UNION {NestedLists(L[i], LineOf(L, l, i)) : i \in 1..Len(L)}

NestedLists(s, ls) ==
    CASE s.kind \in {"For", "Range", "Block"} -> StmtLists(s.body, ls + 1)
      [] s.kind = "If" ->
            StmtLists(s.body, ls + 1)
            \cup (IF s.els = <<>> THEN {}
                  ELSE NestedLists(s.els[1], ls + 1 + SpanList(s.body)))
      [] s.kind \in {"Switch", "TypeSwitch", "Select"} ->
            UNION {StmtLists(s.body[j].body, LineOf(s.body, ls + 1, j) + 1) :
                    j \in 1..Len(s.body)}
      [] OTHER -> {}

\* the run has a list from ParseFile for a file with the one function F
OneFunction == pc = "scope" /\ Len(file.funcs) = 1 /\ file.funcs[1].recv.form = "none"

\* the branches of that function in the list of ParseFile
Tree == structInfo[FreeGroup(structInfo)].Methods[1].Branches

\* the statement lists of that function
Lists == StmtLists(file.funcs[1].body, 1)

(***************************************************************************)
(* C13: for every if statement of a statement list, at any depth, that has *)
(* no else and no else-if, the output tree has the if-clause branch of     *)
(* that statement with the branches extracted from its body as children,   *)
(* and no if-host branch for it.                                           *)
(***************************************************************************)
C13_LoneIfHasNoHost ==
    OneFunction =>
        \A Ll \in Lists : \A i \in 1..Len(Ll[1]) :
            LET st == Ll[1][i]
                ln == LineOf(Ll[1], Ll[2], i)
            IN  (st.kind = "If" /\ st.els = <<>>) =>
                    /\ \E b \in NodesOf(Tree) :
                            /\ b.Type = "BranchIf" /\ b.Line = ln
                            /\ b.Children = ExtractBranches(st.body, ln + 1)
                    /\ \A b \in NodesOf(Tree) : ~(b.Type = "BranchIfHost" /\ b.Line = ln)

\* ParseFile has returned for a function whose body is a loop around an if
\* without else around a return: the if-clause branch is the loop's child
C13_Witness ==
    /\ OneFunction
    /\ file.funcs[1].body = <<Stmt("For", TRUE, <<Stmt("If", TRUE, ReturnOnly, <<>>)>>, <<>>)>>
    /\ Len(Tree) = 1 /\ Tree[1].Type = "BranchFor"
    /\ Len(Tree[1].Children) = 1 /\ Tree[1].Children[1].Type = "BranchIf"
    /\ Len(Tree[1].Children[1].Children) = 1

(***************************************************************************)
(* C14: for every statement list of a function, at any depth, the branches *)
(* extracted from it are one per branching statement of the list, each     *)
(* from the lines of its statement, in the order of the statements; a      *)
(* statement that is not a branching one adds no branch and stops nothing. *)
(* The extracted branches are in the output tree as the siblings of one    *)
(* parent, and the top of the tree is the list of the function body.       *)
(***************************************************************************)
C14_SourceOrder ==
    OneFunction =>
        /\ Tree = ExtractBranches(file.funcs[1].body, 1)
        /\ \A Ll \in Lists :
            LET L         == Ll[1]
                out       == ExtractBranches(L, Ll[2])
                branching == {i \in 1..Len(L) : L[i].kind \in AllKinds \ {"Assign"}}
            IN  /\ Len(out) = Cardinality(branching)
                /\ \A i \in branching :
                    LET b == out[Cardinality({j \in branching : j < i}) + 1]
                    IN  /\ b.Line >= LineOf(L, Ll[2], i)
                        /\ b.Line < LineOf(L, Ll[2], i) + Span(L[i])
                /\ \/ out = Tree
                   \/ \E b \in NodesOf(Tree) : b.Children = out
                   \/ Len(out) = 1 /\ out[1] \in NodesOf(Tree)

\* ParseFile has returned for a function whose body is a loop, an
\* assignment and a return: the tree is the loop's branch, then the return's
C14_Witness ==
    /\ OneFunction
    /\ Len(file.funcs[1].body) = 3
    /\ file.funcs[1].body[1].kind = "For"
    /\ file.funcs[1].body[2].kind = "Assign"
    /\ file.funcs[1].body[3].kind = "Return"
    /\ Len(Tree) = 2
    /\ Tree[1].Type = "BranchFor" /\ Tree[2].Type = "BranchReturn"
    /\ Tree[1].Line < Tree[2].Line

(***************************************************************************)
(* Vocabulary of the claims on the end of a run.                           *)
(***************************************************************************)
RunEnded == pc \in {"nothing", "done", "exit1", "panic"}

\* the texts printed so far
Texts == {printed[i].text : i \in 1..Len(printed)}

\* the file was parsed, and it declares no function, or the filters left no
\* group of the list ParseFile returned
NoCandidates ==
    /\ RunEnded /\ file.ok /\ ~ParseFilePanics(file)
    /\ scope \in ScopeValues /\ paths \in PathsValues
    /\ file.funcs = <<>> \/ handed = <<>>

(***************************************************************************)
(* C15 as claimed: a run on a file that parses and declares no function    *)
(* or method, or whose groups are all removed by the filters, ends without *)
(* an error, has printed the line that nothing testable was found, and has *)
(* written no file.                                                        *)
(***************************************************************************)
C15_AsClaimed ==
    NoCandidates =>
        /\ pc \in {"nothing", "done"}
        /\ NothingFound \in Texts
        /\ written = <<>>

\* the part of C15 that holds: such a run ends without an error and writes
\* no file, and the only line it prints is Done
C15_DoneWithoutFiles ==
    NoCandidates =>
        /\ pc = "done"
        /\ written = <<>>
        /\ printed = <<Msg("stdout", "Done")>>

(***************************************************************************)
(* Vocabulary of the rendering claims.                                     *)
(***************************************************************************)
\* GenerateTestFiles has returned
AfterGenerate == pc \in {"done", "exit1"} /\ file.ok /\ scope \in ScopeValues /\ paths \in PathsValues

\* a line on stderr has been printed
ReportedOnStderr == \E i \in 1..Len(printed) : printed[i].stream = "stderr"

\* the files written are those of the first groups of the list, one each
\* and in order, and the group whose rendering failed has none
NoPartialFile ==
    /\ Len(written) <= Len(handed)
    /\ \A i \in 1..Len(written) :
        /\ written[i].group = handed[i].Name
        /\ written[i].content \in {"formatted", "unformatted"}
    /\ pc = "exit1" => Len(written) < Len(handed)

(***************************************************************************)
(* C16 as claimed: after GenerateTestFiles, a group whose rendering failed *)
(* has no file, and if a file was written with the unformatted text then   *)
(* the run has reported a warning or an error.                             *)
(***************************************************************************)
C16_AsClaimed ==
    AfterGenerate =>
        /\ NoPartialFile
        /\ (\E i \in 1..Len(written) : written[i].content = "unformatted")
                => ReportedOnStderr

\* the part of C16 that holds: a group whose rendering failed has no file
C16_NoFileOnRenderError == AfterGenerate => NoPartialFile

(***************************************************************************)
(* Vocabulary of the chain claim.                                          *)
(***************************************************************************)
RECURSIVE Links(_)
\* the number of else-if links after the if statement st
Links(st) ==
    IF st.els # <<>> /\ st.els[1].kind = "If" THEN 1 + Links(st.els[1]) ELSE 0

RECURSIVE FinalElse(_)
\* the chain of st ends with an else block
FinalElse(st) ==
    /\ st.els # <<>>
    /\ IF st.els[1].kind = "If" THEN FinalElse(st.els[1]) ELSE TRUE

RECURSIVE ClauseAt(_, _, _)
\* <<body, line>> of clause j of the chain of st at line ln: 1 the if, then
\* the links, then the else block
ClauseAt(st, ln, j) ==
    IF j = 1 THEN <<st.body, ln>>
    ELSE IF st.els[1].kind = "If" THEN ClauseAt(st.els[1], ln + 1 + SpanList(st.body), j - 1)
    ELSE <<st.els[1].body, ln + 1 + SpanList(st.body)>>

\* the kind of clause j of a chain with k links
ClauseType(j, k) ==
    IF j = 1 THEN "BranchIf" ELSE IF j <= k + 1 THEN "BranchElseIf" ELSE "BranchElse"

(***************************************************************************)
(* C17: for every if statement of a statement list, at any depth, with     *)
(* k >= 1 else-if links, the output tree has one if-host branch for it     *)
(* whose children are the if clause, the k else-if clauses and the else    *)
(* clause if the chain ends with an else block, in source order; each      *)
(* clause has the branches extracted from its own body as children, and no *)
(* clause is the child of a clause.                                        *)
(***************************************************************************)
C17_ChainIsFlat ==
    OneFunction =>
        /\ \A Ll \in Lists : \A i \in 1..Len(Ll[1]) :
            LET st == Ll[1][i]
                ln == LineOf(Ll[1], Ll[2], i)
                k  == Links(st)
                n  == 1 + k + (IF FinalElse(st) THEN 1 ELSE 0)
            IN  (st.kind = "If" /\ k >= 1) =>
                    /\ Cardinality({b \in NodesOf(Tree) :
                                        b.Type = "BranchIfHost" /\ b.Line = ln}) = 1
                    /\ \A b \in NodesOf(Tree) :
                        (b.Type = "BranchIfHost" /\ b.Line = ln) =>
                            /\ Len(b.Children) = n
                            /\ \A j \in 1..n :
                                /\ b.Children[j].Type = ClauseType(j, k)
                                /\ b.Children[j].Line = ClauseAt(st, ln, j)[2]
                                /\ b.Children[j].Children
                                     = ExtractBranches(ClauseAt(st, ln, j)[1],
                                                       ClauseAt(st, ln, j)[2] + 1)
        /\ \A b \in NodesOf(Tree) :
            b.Type \in {"BranchIf", "BranchElseIf", "BranchElse"} =>
                \A j \in 1..Len(b.Children) :
                    b.Children[j].Type \notin {"BranchElseIf", "BranchElse"}

\* ParseFile has returned for a function whose body is an if with a return
\* in it and two else-if links: the host has the three clauses as children
C17_Witness ==
    /\ OneFunction
    /\ Len(file.funcs[1].body) = 1
    /\ file.funcs[1].body[1].kind = "If"
    /\ file.funcs[1].body[1].body = ReturnOnly
    /\ Links(file.funcs[1].body[1]) = 2
    /\ Len(Tree) = 1 /\ Tree[1].Type = "BranchIfHost"
    /\ Len(Tree[1].Children) = 3
    /\ Tree[1].Children[1].Type = "BranchIf" /\ Len(Tree[1].Children[1].Children) = 1
    /\ Tree[1].Children[2].Type = "BranchElseIf"
    /\ Tree[1].Children[3].Type = "BranchElseIf"

(***************************************************************************)
(* C18 as claimed: no block branch is in the output tree, whether a plain  *)
(* block yields no branch, one branch or several.                          *)
(***************************************************************************)
C18_AsClaimed ==
    OneFunction => \A b \in NodesOf(Tree) : b.Type # "BranchBlock"

\* the part of C18 that holds: a plain block that yields exactly one branch
\* has that branch in its place, and a block branch in the tree never has
\* exactly one child
C18_OneChildPromoted ==
    OneFunction =>
        /\ \A b \in NodesOf(Tree) : b.Type = "BranchBlock" => Len(b.Children) # 1
        /\ \A Ll \in Lists : \A i \in 1..Len(Ll[1]) :
            LET st  == Ll[1][i]
                ln  == LineOf(Ll[1], Ll[2], i)
                in  == ExtractBranches(st.body, ln + 1)
            IN  (st.kind = "Block" /\ Len(in) = 1) =>
                    /\ in[1] \in NodesOf(Tree)
                    /\ \A b \in NodesOf(Tree) : ~(b.Type = "BranchBlock" /\ b.Line = ln)

(***************************************************************************)
(* C19: trimByPaths never removes a group or a function; with paths=all it *)
(* returns the list as it is; with paths=return it leaves the forest of a  *)
(* function whose leaves are all return branches as it is: same branches,  *)
(* same children, same order.                                              *)
(***************************************************************************)
AllLeavesReturn(forest) ==
    \A b \in NodesOf(forest) : b.Children = <<>> => b.Type = "BranchReturn"

C19_PathsFrame ==
    [][pc = "paths" =>
        /\ Len(structInfo') = Len(structInfo)
        /\ \A g \in 1..Len(structInfo) :
            /\ structInfo'[g].Name = structInfo[g].Name
            /\ Len(structInfo'[g].Methods) = Len(structInfo[g].Methods)
            /\ \A m \in 1..Len(structInfo[g].Methods) :
                /\ structInfo'[g].Methods[m].Name = structInfo[g].Methods[m].Name
                /\ structInfo'[g].Methods[m].Receiver = structInfo[g].Methods[m].Receiver
                /\ AllLeavesReturn(structInfo[g].Methods[m].Branches) =>
                        Shape(structInfo'[g].Methods[m].Branches)
                            = Shape(structInfo[g].Methods[m].Branches)
        /\ paths = "all" => structInfo' = structInfo]_vars

\* trimByPaths has run with paths=return on the function whose body is a
\* loop around an if around a return: the three branches are there
C19_Witness ==
    /\ pc = "ctor" /\ paths = "return"
    /\ Len(file.funcs) = 1 /\ file.funcs[1].recv.form = "none"
    /\ file.funcs[1].body = <<Stmt("For", TRUE, <<Stmt("If", TRUE, ReturnOnly, <<>>)>>, <<>>)>>
    /\ Shape(structInfo[FreeGroup(structInfo)].Methods[1].Branches) = Shape(Extracted)
    /\ Cardinality(BranchesIn(structInfo)) = 3

(***************************************************************************)
(* Vocabulary of the claim on constructors and suites.                     *)
(***************************************************************************)
\* the list main gives to trimConstructor
BeforeCtor == trimByPaths(paths, trimByScope(scope, ParseFileResult(file)))

\* the types with a group in that list for which trimConstructor removes a
\* free function, New or new and the name of the type
TypesOfRemovedCtors ==
    IF funcInfoOf(BeforeCtor) = 0 THEN {}
    ELSE {t \in NamedGroups(BeforeCtor) :
            \E k \in 1..Len(BeforeCtor[funcInfoOf(BeforeCtor)].Methods) :
                IsCtorOf(BeforeCtor[funcInfoOf(BeforeCtor)].Methods[k].Name, {t})}

\* the group of type t is in the list handed to GenerateTestFiles
HasSuite(t) == \E i \in 1..Len(handed) : handed[i].Name = t

(***************************************************************************)
(* C20 as claimed: in a run with the constructor filter on, every type for *)
(* which the filter removed a free function has its group in the list      *)
(* handed to GenerateTestFiles.                                            *)
(***************************************************************************)
C20_AsClaimed ==
    (AfterGenerate /\ noctor) => \A t \in TypesOfRemovedCtors : HasSuite(t)

\* the part of C20 that holds: such a type has its group in the list handed
\* over exactly when it has a method
C20_SuiteIffMethods ==
    (AfterGenerate /\ noctor) =>
        \A t \in TypesOfRemovedCtors :
            HasSuite(t) <=> \E i \in 1..Len(BeforeCtor) :
                                BeforeCtor[i].Name = t /\ Len(BeforeCtor[i].Methods) > 0

(***************************************************************************)
(* C21 as claimed: the files written in one run have different names, one  *)
(* per group: no group is written over the file of an earlier group, also  *)
(* when the names of two types differ in letter case only.                 *)
(***************************************************************************)
C21_AsClaimed ==
    \A i, j \in 1..Len(written) : written[i].file = written[j].file => i = j

\* the part of C21 that holds: the free-function group is written to the
\* file with the plain suffix, a named group to the file with its name in
\* lower case and the suite suffix, and two groups are written to the same
\* file only when their names are the same in lower case
C21_NamesAsDerived ==
    /\ \A i \in 1..Len(written) :
        LET f == written[i].file
            g == written[i].group
        IN  IF g = <<>> THEN f = <<"_test.go">>
            ELSE /\ Len(f) = Len(g) + 2
                 /\ f[1] = "_" /\ f[Len(f)] = "_suite_test.go"
                 /\ \A k \in 1..Len(g) : f[k + 1] = LowerOf(g[k]) /\ f[k + 1] \notin UpperCase
    /\ \A i, j \in 1..Len(written) :
        written[i].file = written[j].file =>
            ToLower(written[i].group) = ToLower(written[j].group)

====
